---- MODULE Spec2Model ----
(***************************************************************************)
(* Telephony <-> AI voice bridge (kolenelson/audio).                       *)
(*                                                                         *)
(* src/src/server.ts holds two servers; `server` says which one runs:      *)
(*   "webrtc"    : lines 314-779, registry `streamingSessions`, one peer   *)
(*                 connection per start event;                             *)
(*   "websocket" : lines 1-312, registry `sessions`, one WebSocket to the  *)
(*                 AI endpoint per start event.                            *)
(*                                                                         *)
(* A third server, the chunking one of src/unnamed/part_002               *)
(* (`server` = "chunking"), is modelled for its outbound audio path.      *)
(*                                                                         *)
(* Specifications:                                                         *)
(*   Spec      : both servers of server.ts, two connections, two streamSids*)
(*   SpecCall  : the same with one connection and one streamSid, longer    *)
(*   SpecQueue : one established WebRTC session, its inbound queue         *)
(*   SpecChunk : one established chunking session, its outbound audio     *)
(*   SpecAudio : the audio conversions applied to drawn inputs             *)
(*   SpecAlive : the keep-alive sweep over two connections                 *)
(*                                                                         *)
(* Node.js runs every handler to its next `await` without interruption,    *)
(* so an action is one such run: the synchronous part of a handler, or the *)
(* continuation of an `await`.                                             *)
(***************************************************************************)
EXTENDS Integers, Sequences, FiniteSets, TLC

\* ----------------------------------------------------------------- bounds
\* Events of the environment handled in one run: telephony messages,
\* telephony connections going down, audio arriving from the AI leg.
MaxEvents == 3

\* The same for the runs of one call: one telephony connection, one streamSid.
MaxCallEvents == 4

\* The same for the runs of the chunking server's outbound path.
MaxChunkEvents == 4

\* The same for the runs of one established session's inbound queue: enough
\* media events to fill the queue and overflow it.
MaxQueueEvents == 53

\* Audio conversions: the longest silent input, in samples, and the longest
\* input with drawn sample values.
MaxSamples == 12
MaxDrawn == 2

\* Keep-alive: the sweeps of the timer, and the pongs and connection
\* failures handled, in one run.
MaxSweeps == 4
MaxAliveEvents == 4

\* AUDIO_CONFIG.maxQueueSize
maxQueueSize == 50

\* Identities: telephony connections, streamSid values, inbound payloads,
\* and the session objects (one per start event at most).
\* The size of one telephony frame, in bytes (sendAudioToTwilio).
FrameBytes == 160

\* Audio configurations
TWILIO_AUDIO_CONFIG == [sampleRate |-> 8000, channels |-> 1, bitsPerSample |-> 16]
OPENAI_AUDIO_CONFIG == [sampleRate |-> 24000, channels |-> 1, bitsPerSample |-> 16]
WEBRTC_AUDIO_CONFIG == [sampleRate |-> 48000, channels |-> 1, bitsPerSample |-> 16]

\* Audio arriving from the AI leg: the sample counts of the frames an audio
\* sink delivers (10 ms and 20 ms at 48000 Hz) and the byte lengths of the
\* decoded audio deltas (20 ms and 100 ms of PCM16 at 24000 Hz).
Frames == {480, 960}
Deltas == {960, 4800}

\* The same for the chunking server: deltas whose resampled audio is two
\* whole frames, and two whole frames and 12 bytes more.
ChunkDeltas == {960, 1000}

Sockets == {1, 2}
Sids == {1, 2}
Payloads == {1, 2}
Ids == 1..MaxEvents
CallSockets == {1}
CallSids == {1}
CallPayloads == {1}
NoSession == 0

\* The inbound payload that audioSource.onData rejects by throwing.
BadPayload == 2

VARIABLES
    server,             \* "webrtc" | "websocket" | "chunking" | "audio": what runs
    readyState,         \* telephony socket -> "OPEN" | "CLOSING" | "CLOSED"
    rtc,                \* webrtc: start handler / StreamSession, by identity
    streamingSessions,  \* webrtc: the registry, streamSid -> identity or NoSession
    oai,                \* websocket: start handler / StreamSession, by identity
    sessions,           \* websocket: the registry, streamSid -> identity or NoSession
    out,                \* per streamSid, the messages sent on telephony sockets
    stopDuring,         \* history: starts during whose negotiation a stop arrived
    chunked,            \* chunking server (part_002): its one session, see FreeChunked
    unhandled,          \* the process has seen an unhandled promise rejection
    lastEvent,          \* history: the event handled in the last step
    events,             \* history: the number of environment events handled
    budget,             \* the number of environment events a run may handle
    dsp,                \* SpecAudio: one call of an audio conversion, see NoCall
    keepAlive           \* SpecAlive: the keep-alive state of the connections, see NoKeepAlive

vars == <<server, readyState, rtc, streamingSessions, oai, sessions, out,
          stopDuring, chunked, unhandled, lastEvent, events, budget, dsp,
          keepAlive>>

rtcVars == <<rtc, streamingSessions>>
wsVars == <<oai, sessions>>

\* ------------------------------------------------------------ data model
\* A start handler of the WebRTC server and the objects initializeWebRTC
\* creates for it.
\*   stage: "free" (not started), "token" (awaiting getEphemeralToken),
\*          "sdp" (peer connection created, awaiting the offer/answer exchange),
\*          "settling" (setRemoteDescription applied, its promise not yet
\*          delivered to the handler), "done", "failed".
FreeSession ==
    [streamSid |-> 0, twilioWs |-> 0, stage |-> "free",
     peerConnection |-> "none", audioSink |-> "none",
     bufferQueue |-> <<>>, isProcessing |-> FALSE, loops |-> 0,
     mediaChunkCounter |-> 0, forwarded |-> <<>>]

Negotiating(id) == rtc[id].stage \in {"token", "sdp", "settling"}

Registered(id) ==
    /\ rtc[id].stage # "free"
    /\ streamingSessions[rtc[id].streamSid] = id

\* The smallest identity not yet used.
FreshIdOf(r) == CHOOSE i \in Ids : r[i].stage = "free" /\ \A j \in Ids : j < i => r[j].stage # "free"
FreshId == FreshIdOf(rtc)

\* The session of the chunking server and its running sendAudioToTwilio
\* calls, each with the byte length of its pcm16Buffer and its loop offset.
\*   pcmBytes: history, the bytes of all pcm16Buffers handed to the splitting loop.
\*   registered: the session is in the registry `sessions` of that server.
\*   frames: history, the number of audio buffers handed to sendAudioToTwilio.
\*   sentOf: history, for each chunk sent, the number of the buffer it was cut from.
FreeChunked ==
    [streamSid |-> 0, twilioWs |-> 0, registered |-> FALSE,
     peerConnection |-> "none", audioSink |-> "none", isStreamingAudio |-> FALSE,
     mediaChunkCounter |-> 0, calls |-> <<>>, pcmBytes |-> 0,
     frames |-> 0, sentOf |-> <<>>]

\* The keep-alive state of the telephony connections.
\*   isAlive: extWs.isAlive of each connection;
\*   sweeps: the runs of the keep-alive timer so far;
\*   ponged: history, the connection has received a pong since a sweep last
\*           pinged it (or has not been pinged yet);
\*   missed: history, the sweeps that reached the connection since its last
\*           pong (or since it was accepted).
NoKeepAlive ==
    [isAlive |-> [w \in Sockets |-> TRUE], sweeps |-> 0,
     ponged |-> [w \in Sockets |-> TRUE], missed |-> [w \in Sockets |-> 0]]

\* One call of an audio conversion: the function (`op`), its input samples
\* `x`, its rates, and, once it has returned (`done`), its result `y`.
NoCall ==
    [op |-> "none", x |-> <<>>, fromRate |-> 0, toRate |-> 0, y |-> <<>>, done |-> FALSE]

Event(type, sid, ws) == [type |-> type, sid |-> sid, ws |-> ws]
Internal == Event("internal", 0, 0)

\* A message on a telephony socket; `bytes` is the length of the decoded
\* media.payload (0 for a mark).
Mark(name, w, id) == [kind |-> name, ws |-> w, chunk |-> 0, from |-> id, bytes |-> 0]
MediaMsg(w, id, chunk, bytes) ==
    [kind |-> "media", ws |-> w, chunk |-> chunk, from |-> id, bytes |-> bytes]

\* Send without the readyState test.
Send_Always(o, sid, w, msg) ==
    [o EXCEPT ![sid] = Append(@, msg)]

\* ws.send: a message goes out only on an OPEN socket.
Send(o, sid, w, msg) ==
    IF readyState[w] = "OPEN" THEN [o EXCEPT ![sid] = Append(@, msg)] ELSE o

\* An event of the environment is handled: the budget and the label.
Handled(type, sid, w) ==
    /\ events < budget
    /\ events' = events + 1
    /\ lastEvent' = Event(type, sid, w)

\* A continuation runs: no event of the environment.
Continued ==
    /\ lastEvent' = Internal
    /\ events' = events

\* ------------------------------------------------- WebRTC server handlers
\* case 'start', up to the first await inside initializeWebRTC.
Start(w, s) ==
    /\ server = "webrtc"
    /\ readyState[w] = "OPEN"
    /\ \E i \in Ids : rtc[i].stage = "free"
    /\ Handled("start", s, w)
    /\ rtc' = [rtc EXCEPT ![FreshId] =
                  [FreeSession EXCEPT !.streamSid = s, !.twilioWs = w, !.stage = "token"]]
    /\ UNCHANGED <<server, budget, dsp, keepAlive, chunked, unhandled, readyState, streamingSessions, out, stopDuring, wsVars>>

\* getEphemeralToken resolved: the peer connection, audio source, data channel
\* and audioSession are created; the offer/answer exchange is awaited.
TokenOk(id) ==
    /\ server = "webrtc"
    /\ rtc[id].stage = "token"
    /\ rtc' = [rtc EXCEPT ![id].stage = "sdp", ![id].peerConnection = "open"]
    /\ Continued
    /\ UNCHANGED <<server, budget, dsp, keepAlive, chunked, unhandled, readyState, streamingSessions, out, stopDuring, wsVars>>

\* getEphemeralToken rejected: initializeWebRTC throws before creating anything.
TokenFail(id) ==
    /\ server = "webrtc"
    /\ rtc[id].stage = "token"
    /\ rtc' = [rtc EXCEPT ![id].stage = "failed"]
    /\ Continued
    /\ UNCHANGED <<server, budget, dsp, keepAlive, chunked, unhandled, readyState, streamingSessions, out, stopDuring, wsVars>>

\* The answer arrived and setRemoteDescription applied it: pc.ontrack fires
\* and attaches the audio sink.
SdpAnswer(id) ==
    /\ server = "webrtc"
    /\ rtc[id].stage = "sdp"
    /\ rtc' = [rtc EXCEPT ![id].stage = "settling", ![id].audioSink = "on"]
    /\ Continued
    /\ UNCHANGED <<server, budget, dsp, keepAlive, chunked, unhandled, readyState, streamingSessions, out, stopDuring, wsVars>>

\* createOffer, setLocalDescription, the fetch or setRemoteDescription failed:
\* the catch block logs and rethrows; nothing is released.
SdpFail(id) ==
    /\ server = "webrtc"
    /\ rtc[id].stage = "sdp"
    /\ rtc' = [rtc EXCEPT ![id].stage = "failed"]
    /\ Continued
    /\ UNCHANGED <<server, budget, dsp, keepAlive, chunked, unhandled, readyState, streamingSessions, out, stopDuring, wsVars>>

\* initializeWebRTC resolved: the handler registers the session and sends the mark.
StartSettle(id) ==
    /\ server = "webrtc"
    /\ rtc[id].stage = "settling"
    /\ rtc' = [rtc EXCEPT ![id].stage = "done"]
    /\ streamingSessions' = [streamingSessions EXCEPT ![rtc[id].streamSid] = id]
    /\ out' = Send(out, rtc[id].streamSid, rtc[id].twilioWs,
                   Mark("connected", rtc[id].twilioWs, id))
    /\ Continued
    /\ UNCHANGED <<server, budget, dsp, keepAlive, chunked, unhandled, readyState, stopDuring, wsVars>>

\* audioSource.onData throws for this payload.
Rejects(payload) == payload = BadPayload

\* processAudioQueue(audioSession), up to its first await: the early return,
\* else the first turn of the loop (shift, decode, audioSource.onData).  When
\* onData throws, the finally block resets isProcessing and the loop is over.
processAudioQueue(a) ==
    IF a.isProcessing \/ Len(a.bufferQueue) = 0
    THEN a
    ELSE IF Rejects(Head(a.bufferQueue))
         THEN [a EXCEPT !.isProcessing = FALSE,
                        !.bufferQueue = Tail(@)]
         ELSE [a EXCEPT !.isProcessing = TRUE,
                        !.forwarded = Append(@, Head(a.bufferQueue)),
                        !.bufferQueue = Tail(@),
                        !.loops = @ + 1]

\* The promise of processAudioQueue(a) is rejected in its first turn; no
\* caller awaits or catches it.
RejectedAtOnce(a) ==
    /\ ~a.isProcessing
    /\ Len(a.bufferQueue) > 0
    /\ Rejects(Head(a.bufferQueue))

\* No bound: the queue as it is.
SliceLast_None(q, n) == q

\* The bound kept by dropping the newest entries.
SliceLast_First(q, n) == IF Len(q) > n THEN SubSeq(q, 1, n) ELSE q

\* bufferQueue.slice(-maxQueueSize)
SliceLast(q, n) == IF Len(q) > n THEN SubSeq(q, Len(q) - n + 1, Len(q)) ELSE q

\* The push, the bound and the consumer start of case 'media'.
Buffered(a, payload) ==
    LET pushed == [a EXCEPT !.bufferQueue = Append(@, payload)]
    IN [pushed EXCEPT !.bufferQueue = SliceLast(@, maxQueueSize)]

AcceptMedia(a, payload) ==
    IF ~Buffered(a, payload).isProcessing
    THEN processAudioQueue(Buffered(a, payload))
    ELSE Buffered(a, payload)

\* Media with the registry lookup replaced by a search for any session object
\* of that streamSid, registered or not.
Media_AnySession(w, s, payload) ==
    /\ server = "webrtc"
    /\ readyState[w] = "OPEN"
    /\ Handled("media", s, w)
    /\ rtc' = [i \in Ids |->
                  IF rtc[i].stage # "free" /\ rtc[i].streamSid = s
                  THEN AcceptMedia(rtc[i], payload) ELSE rtc[i]]
    /\ unhandled' = (unhandled \/ \E i \in Ids :
                                    /\ rtc[i].stage # "free" /\ rtc[i].streamSid = s
                                    /\ RejectedAtOnce(Buffered(rtc[i], payload)))
    /\ UNCHANGED <<server, budget, dsp, keepAlive, chunked, readyState, streamingSessions, out, stopDuring, wsVars>>

\* case 'media'
Media(w, s, payload) ==
    /\ server = "webrtc"
    /\ readyState[w] = "OPEN"
    /\ Handled("media", s, w)
    /\ rtc' = IF streamingSessions[s] # NoSession
              THEN [rtc EXCEPT ![streamingSessions[s]] = AcceptMedia(@, payload)]
              ELSE rtc
    /\ unhandled' = (unhandled \/ (/\ streamingSessions[s] # NoSession
                                    /\ RejectedAtOnce(Buffered(rtc[streamingSessions[s]], payload))))
    /\ UNCHANGED <<server, budget, dsp, keepAlive, chunked, readyState, streamingSessions, out, stopDuring, wsVars>>

\* The loop taking the newest frame of the queue instead of the oldest.
NextTurn_Newest(a) ==
    IF Len(a.bufferQueue) = 0
    THEN [a EXCEPT !.isProcessing = FALSE, !.loops = @ - 1]
    ELSE [a EXCEPT !.forwarded = Append(@, a.bufferQueue[Len(a.bufferQueue)]),
                   !.bufferQueue = SubSeq(@, 1, Len(@) - 1)]

\* One turn of a running processAudioQueue loop after its await: the next
\* frame is shifted and handed to audioSource.onData, or the loop ends through
\* the finally block (queue empty, or onData threw).
NextTurn(a) ==
    IF Len(a.bufferQueue) = 0
    THEN [a EXCEPT !.isProcessing = FALSE, !.loops = @ - 1]
    ELSE IF Rejects(Head(a.bufferQueue))
         THEN [a EXCEPT !.isProcessing = FALSE, !.loops = @ - 1, !.bufferQueue = Tail(@)]
         ELSE [a EXCEPT !.forwarded = Append(@, Head(a.bufferQueue)),
                        !.bufferQueue = Tail(@)]

\* The 20 ms timer of a running processAudioQueue loop fires.
Wake(id) ==
    /\ server = "webrtc"
    /\ rtc[id].loops > 0
    /\ rtc' = [rtc EXCEPT ![id] = NextTurn(@)]
    /\ unhandled' = (unhandled \/ (/\ Len(rtc[id].bufferQueue) > 0
                                    /\ Rejects(Head(rtc[id].bufferQueue))))
    /\ Continued
    /\ UNCHANGED <<server, budget, dsp, keepAlive, chunked, readyState, streamingSessions, out, stopDuring, wsVars>>

\* The teardown of case 'stop'.
StopTeardown(a) ==
    [a EXCEPT !.bufferQueue = <<>>,
              !.isProcessing = FALSE,
              !.audioSink = IF @ = "on" THEN "stopped" ELSE @,
              !.peerConnection = "closed"]

\* A stop that tears down every session of its connection.
Stop_WholeSocket(w, s) ==
    /\ server = "webrtc"
    /\ readyState[w] = "OPEN"
    /\ Handled("stop", s, w)
    /\ IF streamingSessions[s] # NoSession
       THEN /\ rtc' = [i \in Ids |->
                         IF Registered(i) /\ rtc[i].twilioWs = w
                         THEN StopTeardown(rtc[i]) ELSE rtc[i]]
            /\ streamingSessions' =
                  [x \in Sids |->
                      IF streamingSessions[x] # NoSession
                         /\ rtc[streamingSessions[x]].twilioWs = w
                      THEN NoSession ELSE streamingSessions[x]]
            /\ out' = Send(out, s, w, Mark("disconnected", w, streamingSessions[s]))
       ELSE UNCHANGED <<rtc, streamingSessions, out>>
    /\ stopDuring' = stopDuring \cup {i \in Ids : rtc[i].stage \in {"token", "sdp"}
                                                    /\ rtc[i].streamSid = s}
    /\ UNCHANGED <<server, budget, dsp, keepAlive, chunked, unhandled, readyState, wsVars>>

\* A stop that answers with the mark whether or not a session is registered.
Stop_AlwaysMarks(w, s) ==
    /\ server = "webrtc"
    /\ readyState[w] = "OPEN"
    /\ Handled("stop", s, w)
    /\ IF streamingSessions[s] # NoSession
       THEN /\ rtc' = [rtc EXCEPT ![streamingSessions[s]] = StopTeardown(@)]
            /\ streamingSessions' = [streamingSessions EXCEPT ![s] = NoSession]
       ELSE UNCHANGED <<rtc, streamingSessions>>
    /\ out' = Send(out, s, w, Mark("disconnected", w, streamingSessions[s]))
    /\ stopDuring' = stopDuring \cup {i \in Ids : rtc[i].stage \in {"token", "sdp"}
                                                    /\ rtc[i].streamSid = s}
    /\ UNCHANGED <<server, budget, dsp, keepAlive, chunked, unhandled, readyState, wsVars>>

\* A stop that tears the session down but leaves its registry entry.
Stop_KeepsRegistered(w, s) ==
    /\ server = "webrtc"
    /\ readyState[w] = "OPEN"
    /\ Handled("stop", s, w)
    /\ IF streamingSessions[s] # NoSession
       THEN /\ rtc' = [rtc EXCEPT ![streamingSessions[s]] = StopTeardown(@)]
            /\ out' = Send(out, s, w, Mark("disconnected", w, streamingSessions[s]))
       ELSE UNCHANGED <<rtc, out>>
    /\ stopDuring' = stopDuring \cup {i \in Ids : rtc[i].stage \in {"token", "sdp"}
                                                    /\ rtc[i].streamSid = s}
    /\ UNCHANGED <<server, budget, dsp, keepAlive, chunked, unhandled, readyState, streamingSessions, wsVars>>

\* case 'stop'
Stop(w, s) ==
    /\ server = "webrtc"
    /\ readyState[w] = "OPEN"
    /\ Handled("stop", s, w)
    /\ IF streamingSessions[s] # NoSession
       THEN /\ rtc' = [rtc EXCEPT ![streamingSessions[s]] = StopTeardown(@)]
            /\ streamingSessions' = [streamingSessions EXCEPT ![s] = NoSession]
            /\ out' = Send(out, s, w, Mark("disconnected", w, streamingSessions[s]))
       ELSE UNCHANGED <<rtc, streamingSessions, out>>
    /\ stopDuring' = stopDuring \cup {i \in Ids : rtc[i].stage \in {"token", "sdp"}
                                                    /\ rtc[i].streamSid = s}
    /\ UNCHANGED <<server, budget, dsp, keepAlive, chunked, unhandled, readyState, wsVars>>

\* The length computed with the division applied to the count first.
ResampledLength_DivideFirst(n, fromRate, toRate) == (n \div fromRate) * toRate

\* The length with one sample more.
ResampledLength_OneMore(n, fromRate, toRate) == (n * toRate) \div fromRate + 1

\* resampleAudio (WebRTC server): the length of its result for n samples.
ResampledLength(n, fromRate, toRate) == (n * toRate) \div fromRate

\* convertAudioFormat: the byte length of its result for n samples.
convertAudioFormat(n, fromConfig, toConfig) ==
    ResampledLength(n, fromConfig.sampleRate, toConfig.sampleRate)
        * (toConfig.bitsPerSample \div 8)

\* OnData with the counter advanced only when the frame is sent.
OnData_CountsSentOnly(a, o, id, n) ==
    [session |-> [a EXCEPT !.mediaChunkCounter =
                     IF readyState[a.twilioWs] = "OPEN" THEN @ + 1 ELSE @],
     out |-> Send(o, a.streamSid, a.twilioWs,
                  MediaMsg(a.twilioWs, id, a.mediaChunkCounter,
                           convertAudioFormat(n, WEBRTC_AUDIO_CONFIG, TWILIO_AUDIO_CONFIG)))]

\* audioSink.ondata with a valid frame of n samples.
OnData(a, o, id, n) ==
    [session |-> [a EXCEPT !.mediaChunkCounter = @ + 1],
     out |-> Send(o, a.streamSid, a.twilioWs,
                  MediaMsg(a.twilioWs, id, a.mediaChunkCounter,
                           convertAudioFormat(n, WEBRTC_AUDIO_CONFIG, TWILIO_AUDIO_CONFIG)))]

SinkData(id, n) ==
    /\ server = "webrtc"
    /\ rtc[id].audioSink = "on"
    /\ Handled("frame", rtc[id].streamSid, rtc[id].twilioWs)
    /\ rtc' = [rtc EXCEPT ![id] = OnData(rtc[id], out, id, n).session]
    /\ out' = OnData(rtc[id], out, id, n).out
    /\ UNCHANGED <<server, budget, dsp, keepAlive, chunked, unhandled, readyState, streamingSessions, stopDuring, wsVars>>

\* What can be wrong with a telephony message.
Defects == {"notJson", "unknownEvent", "noStreamSid", "noPayload"}

\* An invalid message that makes the handler drop every registered session.
Invalid_Unregisters(w, defect) ==
    /\ readyState[w] = "OPEN"
    /\ Handled("invalid", 0, w)
    /\ streamingSessions' = [s \in Sids |-> NoSession]
    /\ sessions' = [s \in Sids |-> NoSession]
    /\ UNCHANGED <<server, budget, dsp, keepAlive, chunked, unhandled, readyState, rtc, oai, out, stopDuring>>

\* The 'message' handler of either server with a message that is not JSON
\* (JSON.parse throws into the handler's catch), names no known event (no
\* case of the switch), or lacks streamSid or media.payload (the guard of
\* its case is false): the handler returns without touching anything.
Invalid(w, defect) ==
    /\ readyState[w] = "OPEN"
    /\ Handled("invalid", 0, w)
    /\ UNCHANGED <<server, budget, dsp, keepAlive, chunked, unhandled, readyState, rtcVars, wsVars, out, stopDuring>>

\* The telephony connection goes down (close frame, network loss, terminate):
\* readyState leaves OPEN; the 'close' event is emitted later.
SocketClosing(w) ==
    /\ readyState[w] = "OPEN"
    /\ Handled("closing", 0, w)
    /\ readyState' = [readyState EXCEPT ![w] = "CLOSING"]
    /\ UNCHANGED <<server, budget, dsp, keepAlive, chunked, unhandled, rtcVars, wsVars, out, stopDuring>>

\* The teardown of one session in the 'close' handler.
CloseTeardown(a) ==
    [a EXCEPT !.audioSink = IF @ = "on" THEN "stopped" ELSE @,
              !.peerConnection = "closed"]

OwnedBy(w) == {s \in Sids : streamingSessions[s] # NoSession
                            /\ rtc[streamingSessions[s]].twilioWs = w}

\* extWs.on('close')
SocketClose(w) ==
    /\ server = "webrtc"
    /\ readyState[w] = "CLOSING"
    /\ readyState' = [readyState EXCEPT ![w] = "CLOSED"]
    /\ rtc' = [i \in Ids |->
                  IF rtc[i].stage # "free" /\ rtc[i].streamSid \in OwnedBy(w)
                     /\ streamingSessions[rtc[i].streamSid] = i
                  THEN CloseTeardown(rtc[i]) ELSE rtc[i]]
    /\ streamingSessions' = [s \in Sids |->
                                IF s \in OwnedBy(w) THEN NoSession ELSE streamingSessions[s]]
    /\ lastEvent' = Event("close", 0, w)
    /\ events' = events
    /\ UNCHANGED <<server, budget, dsp, keepAlive, chunked, unhandled, out, stopDuring, wsVars>>

\* ---------------------------------------------- WebSocket server handlers
\* A start handler of the WebSocket server and the StreamSession that
\* initializeOpenAIWebSocket creates for it.
\*   stage: "free", "token" (awaiting getEphemeralToken), "done", "failed";
\*   openaiWs: "none" | "CONNECTING" | "OPEN" | "CLOSING" | "CLOSED".
FreeWsSession ==
    [streamSid |-> 0, twilioWs |-> 0, stage |-> "free", openaiWs |-> "none",
     mediaChunkCounter |-> 0, forwarded |-> <<>>]

WsFreshId == CHOOSE i \in Ids : oai[i].stage = "free" /\ \A j \in Ids : j < i => oai[j].stage # "free"

\* case 'start', up to the await of getEphemeralToken.
WsStart(w, s) ==
    /\ server = "websocket"
    /\ readyState[w] = "OPEN"
    /\ \E i \in Ids : oai[i].stage = "free"
    /\ Handled("start", s, w)
    /\ oai' = [oai EXCEPT ![WsFreshId] =
                  [FreeWsSession EXCEPT !.streamSid = s, !.twilioWs = w, !.stage = "token"]]
    /\ UNCHANGED <<server, budget, dsp, keepAlive, chunked, unhandled, readyState, sessions, out, stopDuring, rtcVars>>

\* getEphemeralToken resolved: the socket to the AI endpoint is constructed
\* (still connecting), the session is created and registered, and the start
\* handler sends the mark.
WsTokenOk(id) ==
    /\ server = "websocket"
    /\ oai[id].stage = "token"
    /\ oai' = [oai EXCEPT ![id].stage = "done", ![id].openaiWs = "CONNECTING"]
    /\ sessions' = [sessions EXCEPT ![oai[id].streamSid] = id]
    /\ out' = Send(out, oai[id].streamSid, oai[id].twilioWs,
                   Mark("connected", oai[id].twilioWs, id))
    /\ Continued
    /\ UNCHANGED <<server, budget, dsp, keepAlive, chunked, unhandled, readyState, stopDuring, rtcVars>>

\* getEphemeralToken rejected: nothing was created.
WsTokenFail(id) ==
    /\ server = "websocket"
    /\ oai[id].stage = "token"
    /\ oai' = [oai EXCEPT ![id].stage = "failed"]
    /\ Continued
    /\ UNCHANGED <<server, budget, dsp, keepAlive, chunked, unhandled, readyState, sessions, out, stopDuring, rtcVars>>

\* ws.on('open')
AiOpen(id) ==
    /\ server = "websocket"
    /\ oai[id].openaiWs = "CONNECTING"
    /\ oai' = [oai EXCEPT ![id].openaiWs = "OPEN"]
    /\ Continued
    /\ UNCHANGED <<server, budget, dsp, keepAlive, chunked, unhandled, readyState, sessions, out, stopDuring, rtcVars>>

\* The AI endpoint or the network ends the connection: the socket leaves
\* CONNECTING or OPEN; its 'close' event is emitted later.
AiDown(id) ==
    /\ server = "websocket"
    /\ oai[id].openaiWs \in {"CONNECTING", "OPEN"}
    /\ oai' = [oai EXCEPT ![id].openaiWs = "CLOSING"]
    /\ Handled("aiDown", oai[id].streamSid, oai[id].twilioWs)
    /\ UNCHANGED <<server, budget, dsp, keepAlive, chunked, unhandled, readyState, sessions, out, stopDuring, rtcVars>>

\* cleanupSession(session)
cleanupSession(o, reg, id) ==
    [oai |-> [o EXCEPT ![id].openaiWs = IF @ = "OPEN" THEN "CLOSING" ELSE @],
     sessions |-> [reg EXCEPT ![o[id].streamSid] = NoSession]]

\* ws.on('close') of the socket to the AI endpoint
AiClose(id) ==
    /\ server = "websocket"
    /\ oai[id].openaiWs = "CLOSING"
    /\ LET closed == [oai EXCEPT ![id].openaiWs = "CLOSED"]
       IN /\ oai' = cleanupSession(closed, sessions, id).oai
          /\ sessions' = cleanupSession(closed, sessions, id).sessions
    /\ Continued
    /\ UNCHANGED <<server, budget, dsp, keepAlive, chunked, unhandled, readyState, out, stopDuring, rtcVars>>

\* resampleAudio (WebSocket server): the byte length of its result for a
\* buffer of `bytes` bytes (even, as PCM16 is).
resampleAudio(bytes, fromRate, toRate) ==
    (((bytes \div 2) * toRate) \div fromRate) * 2

\* handleOpenAIMessage with a response.audio.delta of `bytes` decoded bytes
handleOpenAIMessage(a, o, id, bytes) ==
    [session |-> [a EXCEPT !.mediaChunkCounter = @ + 1],
     out |-> Send(o, a.streamSid, a.twilioWs,
                  MediaMsg(a.twilioWs, id, a.mediaChunkCounter,
                           resampleAudio(bytes, OPENAI_AUDIO_CONFIG.sampleRate,
                                         TWILIO_AUDIO_CONFIG.sampleRate)))]

\* ws.on('message') of the socket to the AI endpoint
AiDelta(id, bytes) ==
    /\ server = "websocket"
    /\ oai[id].openaiWs = "OPEN"
    /\ Handled("frame", oai[id].streamSid, oai[id].twilioWs)
    /\ oai' = [oai EXCEPT ![id] = handleOpenAIMessage(oai[id], out, id, bytes).session]
    /\ out' = handleOpenAIMessage(oai[id], out, id, bytes).out
    /\ UNCHANGED <<server, budget, dsp, keepAlive, chunked, unhandled, readyState, sessions, stopDuring, rtcVars>>

\* handleTwilioAudio: the resampled audio is sent if the AI socket is OPEN.
handleTwilioAudio(a, payload) ==
    IF a.openaiWs = "OPEN" THEN [a EXCEPT !.forwarded = Append(@, payload)] ELSE a

\* case 'media'
WsMedia(w, s, payload) ==
    /\ server = "websocket"
    /\ readyState[w] = "OPEN"
    /\ Handled("media", s, w)
    /\ oai' = IF sessions[s] # NoSession
              THEN [oai EXCEPT ![sessions[s]] = handleTwilioAudio(@, payload)]
              ELSE oai
    /\ UNCHANGED <<server, budget, dsp, keepAlive, chunked, unhandled, readyState, sessions, out, stopDuring, rtcVars>>

\* case 'stop'
WsStop(w, s) ==
    /\ server = "websocket"
    /\ readyState[w] = "OPEN"
    /\ Handled("stop", s, w)
    /\ IF sessions[s] # NoSession
       THEN /\ oai' = cleanupSession(oai, sessions, sessions[s]).oai
            /\ sessions' = cleanupSession(oai, sessions, sessions[s]).sessions
            /\ out' = Send(out, s, w, Mark("disconnected", w, sessions[s]))
       ELSE UNCHANGED <<oai, sessions, out>>
    /\ stopDuring' = stopDuring \cup {i \in Ids : oai[i].stage = "token" /\ oai[i].streamSid = s}
    /\ UNCHANGED <<server, budget, dsp, keepAlive, chunked, unhandled, readyState, rtcVars>>

WsOwnedBy(w) == {s \in Sids : sessions[s] # NoSession /\ oai[sessions[s]].twilioWs = w}

\* cleanupSession for every session of the set, as the loop of the 'close'
\* handler does.
RECURSIVE CleanupAll(_, _, _)
CleanupAll(o, reg, sids) ==
    IF sids = {} THEN [oai |-> o, sessions |-> reg]
    ELSE LET s == CHOOSE x \in sids : TRUE
             r == cleanupSession(o, reg, reg[s])
         IN CleanupAll(r.oai, r.sessions, sids \ {s})

\* ws.on('close') of a telephony connection
WsSocketClose(w) ==
    /\ server = "websocket"
    /\ readyState[w] = "CLOSING"
    /\ readyState' = [readyState EXCEPT ![w] = "CLOSED"]
    /\ oai' = CleanupAll(oai, sessions, WsOwnedBy(w)).oai
    /\ sessions' = CleanupAll(oai, sessions, WsOwnedBy(w)).sessions
    /\ lastEvent' = Event("close", 0, w)
    /\ events' = events
    /\ UNCHANGED <<server, budget, dsp, keepAlive, chunked, unhandled, out, stopDuring, rtcVars>>

NextRtc ==
    \/ \E w \in Sockets, s \in Sids : Start(w, s)
    \/ \E id \in Ids : TokenOk(id)
    \/ \E id \in Ids : TokenFail(id)
    \/ \E id \in Ids : SdpAnswer(id)
    \/ \E id \in Ids : SdpFail(id)
    \/ \E id \in Ids : StartSettle(id)
    \/ \E w \in Sockets, s \in Sids, p \in Payloads : Media(w, s, p)
    \/ \E id \in Ids : Wake(id)
    \/ \E w \in Sockets, s \in Sids : Stop(w, s)
    \/ \E id \in Ids, n \in Frames : SinkData(id, n)
    \/ \E w \in Sockets : SocketClose(w)

NextWs ==
    \/ \E w \in Sockets, s \in Sids : WsStart(w, s)
    \/ \E id \in Ids : WsTokenOk(id)
    \/ \E id \in Ids : WsTokenFail(id)
    \/ \E id \in Ids : AiOpen(id)
    \/ \E id \in Ids : AiDown(id)
    \/ \E id \in Ids : AiClose(id)
    \/ \E id \in Ids, b \in Deltas : AiDelta(id, b)
    \/ \E w \in Sockets, s \in Sids, p \in Payloads : WsMedia(w, s, p)
    \/ \E w \in Sockets, s \in Sids : WsStop(w, s)
    \/ \E w \in Sockets : WsSocketClose(w)

Init ==
    /\ server \in {"webrtc", "websocket"}
    /\ readyState = [w \in Sockets |-> "OPEN"]
    /\ rtc = [i \in Ids |-> FreeSession]
    /\ streamingSessions = [s \in Sids |-> NoSession]
    /\ oai = [i \in Ids |-> FreeWsSession]
    /\ sessions = [s \in Sids |-> NoSession]
    /\ out = [s \in Sids |-> <<>>]
    /\ stopDuring = {}
    /\ chunked = FreeChunked
    /\ unhandled = FALSE
    /\ lastEvent = Internal
    /\ events = 0
    /\ budget = MaxEvents
    /\ dsp = NoCall
    /\ keepAlive = NoKeepAlive

Next ==
    \/ NextRtc
    \/ NextWs
    \/ \E w \in Sockets : SocketClosing(w)
    \/ \E w \in Sockets, d \in Defects : Invalid(w, d)

Spec == Init /\ [][Next]_vars

\* ------------------------------------------------------- one call, longer
\* Both servers with one telephony connection and one streamSid, so that
\* longer successions of starts, stops and audio frames are covered.
InitCall ==
    /\ server \in {"webrtc", "websocket"}
    /\ readyState = [w \in Sockets |-> "OPEN"]
    /\ rtc = [i \in Ids |-> FreeSession]
    /\ streamingSessions = [s \in Sids |-> NoSession]
    /\ oai = [i \in Ids |-> FreeWsSession]
    /\ sessions = [s \in Sids |-> NoSession]
    /\ out = [s \in Sids |-> <<>>]
    /\ stopDuring = {}
    /\ chunked = FreeChunked
    /\ unhandled = FALSE
    /\ lastEvent = Internal
    /\ events = 0
    /\ budget = MaxCallEvents
    /\ dsp = NoCall
    /\ keepAlive = NoKeepAlive

NextCall ==
    \/ \E w \in CallSockets, s \in CallSids : Start(w, s)
    \/ \E id \in Ids : TokenOk(id)
    \/ \E id \in Ids : TokenFail(id)
    \/ \E id \in Ids : SdpAnswer(id)
    \/ \E id \in Ids : SdpFail(id)
    \/ \E id \in Ids : StartSettle(id)
    \/ \E w \in CallSockets, s \in CallSids, p \in CallPayloads : Media(w, s, p)
    \/ \E id \in Ids : Wake(id)
    \/ \E w \in CallSockets, s \in CallSids : Stop(w, s)
    \/ \E id \in Ids, n \in Frames : SinkData(id, n)
    \/ \E w \in CallSockets : SocketClose(w)
    \/ \E w \in CallSockets, s \in CallSids : WsStart(w, s)
    \/ \E id \in Ids : WsTokenOk(id)
    \/ \E id \in Ids : WsTokenFail(id)
    \/ \E id \in Ids : AiOpen(id)
    \/ \E id \in Ids : AiDown(id)
    \/ \E id \in Ids : AiClose(id)
    \/ \E id \in Ids, b \in Deltas : AiDelta(id, b)
    \/ \E w \in CallSockets, s \in CallSids, p \in CallPayloads : WsMedia(w, s, p)
    \/ \E w \in CallSockets, s \in CallSids : WsStop(w, s)
    \/ \E w \in CallSockets : WsSocketClose(w)
    \/ \E w \in CallSockets : SocketClosing(w)

SpecCall == InitCall /\ [][NextCall]_vars

\* ------------------------------------ WebRTC server, one session's inbound
\* The state after a successful start: one session, registered, its
\* 'connected' mark sent.  The payload of a media event is its arrival number.
InitQueue ==
    /\ server = "webrtc"
    /\ readyState = [w \in Sockets |-> "OPEN"]
    /\ \E w \in CallSockets, s \in CallSids, id \in Ids :
          /\ id = FreshIdOf([i \in Ids |-> FreeSession])
          /\ rtc = [i \in Ids |->
                       IF i = id
                       THEN [FreeSession EXCEPT !.streamSid = s, !.twilioWs = w,
                                                !.stage = "done",
                                                !.peerConnection = "open",
                                                !.audioSink = "on"]
                       ELSE FreeSession]
          /\ streamingSessions = [x \in Sids |-> IF x = s THEN id ELSE NoSession]
          /\ out = [x \in Sids |-> IF x = s THEN <<Mark("connected", w, id)>> ELSE <<>>]
    /\ oai = [i \in Ids |-> FreeWsSession]
    /\ sessions = [s \in Sids |-> NoSession]
    /\ stopDuring = {}
    /\ chunked = FreeChunked
    /\ unhandled = FALSE
    /\ lastEvent = Internal
    /\ events = 0
    /\ budget = MaxQueueEvents
    /\ dsp = NoCall
    /\ keepAlive = NoKeepAlive

NextQueue ==
    \/ \E w \in CallSockets, s \in CallSids : Media(w, s, events + 1)
    \/ \E id \in Ids : Wake(id)
    \/ \E w \in CallSockets, s \in CallSids : Stop(w, s)

SpecQueue == InitQueue /\ [][NextQueue]_vars

\* ------------------------------------- chunking server, outbound audio path
\* sendAudioToTwilio up to its buffer: the byte length of pcm16Buffer for an
\* audioBuffer of `bytes` bytes (resampleAudio from 24000 to 8000 Hz, then
\* two bytes per sample).
Pcm16Length(bytes) ==
    (((bytes \div 2) * TWILIO_AUDIO_CONFIG.sampleRate) \div OPENAI_AUDIO_CONFIG.sampleRate) * 2

\* The whole chunks left in a running call.
WholeChunks(c) == (c.length - c.offset) \div FrameBytes

\* One run of the splitting loop of call c, from its offset to its next await
\* or its end.  With the socket OPEN the next whole chunk is counted and sent
\* and the loop awaits; otherwise every whole chunk left is counted and none
\* sent.  A last chunk shorter than 160 bytes is skipped.
\* The result: the session, the messages, and the call if it still runs.
SendLoop(a, o, c) ==
    IF WholeChunks(c) = 0
    THEN [session |-> a, out |-> o, running |-> <<>>]
    ELSE IF readyState[a.twilioWs] = "OPEN"
         THEN [session |-> [a EXCEPT !.mediaChunkCounter = @ + 1,
                                     !.sentOf = Append(@, c.frame)],
               out |-> Send(o, a.streamSid, a.twilioWs,
                            MediaMsg(a.twilioWs, NoSession, a.mediaChunkCounter, FrameBytes)),
               running |-> <<[c EXCEPT !.offset = @ + FrameBytes]>>]
         ELSE [session |-> [a EXCEPT !.mediaChunkCounter = @ + WholeChunks(c)],
               out |-> o,
               running |-> <<>>]

\* sendAudioToTwilio(session, audioBuffer) up to its first await.
sendAudioToTwilio(a, o, bytes) ==
    IF bytes = 0
    THEN [session |-> a, out |-> o]
    ELSE LET c == [length |-> Pcm16Length(bytes), offset |-> 0, frame |-> a.frames + 1]
             r == SendLoop([a EXCEPT !.pcmBytes = @ + c.length, !.frames = @ + 1], o, c)
         IN [session |-> [r.session EXCEPT !.calls = @ \o r.running], out |-> r.out]

\* handleOpenAIMessage: 'output_audio_buffer.audio_started' / 'audio_stopped'
AudioStarted ==
    /\ server = "chunking"
    /\ chunked.peerConnection = "open"
    /\ Handled("audioStarted", chunked.streamSid, chunked.twilioWs)
    /\ chunked' = [chunked EXCEPT !.isStreamingAudio = TRUE]
    /\ UNCHANGED <<server, budget, dsp, keepAlive, unhandled, readyState, rtcVars, wsVars, out, stopDuring>>

AudioStopped ==
    /\ server = "chunking"
    /\ chunked.peerConnection = "open"
    /\ Handled("audioStopped", chunked.streamSid, chunked.twilioWs)
    /\ chunked' = [chunked EXCEPT !.isStreamingAudio = FALSE]
    /\ UNCHANGED <<server, budget, dsp, keepAlive, unhandled, readyState, rtcVars, wsVars, out, stopDuring>>

\* handleOpenAIMessage: 'response.audio.delta' with `bytes` decoded bytes
ChunkDelta(bytes) ==
    /\ server = "chunking"
    /\ chunked.peerConnection = "open"
    /\ Handled("frame", chunked.streamSid, chunked.twilioWs)
    /\ IF chunked.isStreamingAudio
       THEN /\ chunked' = sendAudioToTwilio(chunked, out, bytes).session
            /\ out' = sendAudioToTwilio(chunked, out, bytes).out
       ELSE UNCHANGED <<chunked, out>>
    /\ UNCHANGED <<server, budget, dsp, keepAlive, unhandled, readyState, rtcVars, wsVars, stopDuring>>

\* audioSink.ondata with a frame of n 16-bit samples: the same path.
ChunkSinkData(n) ==
    /\ server = "chunking"
    /\ chunked.audioSink = "on"
    /\ Handled("frame", chunked.streamSid, chunked.twilioWs)
    /\ IF chunked.isStreamingAudio
       THEN /\ chunked' = sendAudioToTwilio(chunked, out, 2 * n).session
            /\ out' = sendAudioToTwilio(chunked, out, 2 * n).out
       ELSE UNCHANGED <<chunked, out>>
    /\ UNCHANGED <<server, budget, dsp, keepAlive, unhandled, readyState, rtcVars, wsVars, stopDuring>>

\* The calls but the k-th.
Without(calls, k) == SubSeq(calls, 1, k - 1) \o SubSeq(calls, k + 1, Len(calls))

\* The awaits of the k-th running sendAudioToTwilio call are over: its loop
\* goes on.
ChunkNext(k) ==
    /\ server = "chunking"
    /\ k \in 1..Len(chunked.calls)
    /\ LET r == SendLoop([chunked EXCEPT !.calls = Without(@, k)], out, chunked.calls[k])
       IN /\ chunked' = [r.session EXCEPT !.calls = @ \o r.running]
          /\ out' = r.out
    /\ Continued
    /\ UNCHANGED <<server, budget, dsp, keepAlive, unhandled, readyState, rtcVars, wsVars, stopDuring>>

\* case 'stop' of the chunking server: the sink is stopped, the peer
\* connection closed, the session unregistered, the mark sent.  The running
\* sendAudioToTwilio calls are not touched.
ChunkStop(w, s) ==
    /\ server = "chunking"
    /\ readyState[w] = "OPEN"
    /\ Handled("stop", s, w)
    /\ IF chunked.registered /\ chunked.streamSid = s
       THEN /\ chunked' = [chunked EXCEPT !.audioSink = "stopped",
                                          !.peerConnection = "closed",
                                          !.registered = FALSE]
            /\ out' = Send(out, s, w, Mark("disconnected", w, NoSession))
       ELSE UNCHANGED <<chunked, out>>
    /\ UNCHANGED <<server, budget, dsp, keepAlive, unhandled, readyState, rtcVars, wsVars, stopDuring>>

\* The state after a successful start: one session, registered, telephony
\* socket open.
InitChunk ==
    /\ server = "chunking"
    /\ readyState = [w \in Sockets |-> "OPEN"]
    /\ rtc = [i \in Ids |-> FreeSession]
    /\ streamingSessions = [s \in Sids |-> NoSession]
    /\ oai = [i \in Ids |-> FreeWsSession]
    /\ sessions = [s \in Sids |-> NoSession]
    /\ out = [s \in Sids |-> <<>>]
    /\ stopDuring = {}
    /\ \E w \in CallSockets, s \in CallSids :
          chunked = [FreeChunked EXCEPT !.streamSid = s, !.twilioWs = w,
                                        !.registered = TRUE,
                                        !.peerConnection = "open",
                                        !.audioSink = "on"]
    /\ unhandled = FALSE
    /\ lastEvent = Internal
    /\ events = 0
    /\ budget = MaxChunkEvents
    /\ dsp = NoCall
    /\ keepAlive = NoKeepAlive

NextChunk ==
    \/ AudioStarted
    \/ AudioStopped
    \/ \E b \in ChunkDeltas : ChunkDelta(b)
    \/ \E n \in Frames : ChunkSinkData(n)
    \/ \E k \in 1..MaxChunkEvents : ChunkNext(k)
    \/ \E w \in CallSockets, s \in CallSids : ChunkStop(w, s)
    \/ \E w \in CallSockets : SocketClosing(w)

SpecChunk == InitChunk /\ [][NextChunk]_vars

\* ------------------------------------------------------ audio conversions
\* Samples are exact rationals here: a PCM16 value v decodes to v / 32768,
\* and an interpolated sample is a fraction [num, den] of such values. The
\* rates of the program are multiples of one another or of 8000, and the
\* lengths below are the ones the floating-point expressions of the code
\* give for them (N / (a / b) and N * (b / a) round to the exact quotient
\* when it is whole, and are not within one ulp of a whole number otherwise).
MinInt16 == -32768
MaxInt16 == 32767
Pcm16Scale == 32768
Int16 == MinInt16..MaxInt16

\* The sample rates of TWILIO_AUDIO_CONFIG, OPENAI_AUDIO_CONFIG and
\* WEBRTC_AUDIO_CONFIG.
Rates ==
    {TWILIO_AUDIO_CONFIG.sampleRate, OPENAI_AUDIO_CONFIG.sampleRate,
     WEBRTC_AUDIO_CONFIG.sampleRate}

RECURSIVE Gcd(_, _)
Gcd(a, b) == IF b = 0 THEN a ELSE Gcd(b, a % b)

\* `ratio = fromRate / toRate` in lowest terms.
Ratio(fromRate, toRate) ==
    [num |-> fromRate \div Gcd(fromRate, toRate),
     den |-> toRate \div Gcd(fromRate, toRate)]

\* index = Math.floor(i * ratio)
SourceIndex(i, ratio) == (i * ratio.num) \div ratio.den

\* samples[k], k from 0.  A typed array read past its end gives undefined
\* and raises nothing; it stands as 0 here.
At(samples, k) == IF k < Len(samples) THEN samples[k + 1] ELSE 0

\* The body of the interpolation loop, the same in both resamplers: output
\* sample i (from 0) of `samples`, as a fraction over ratio.den.
\*   pos = i * ratio, index = floor(pos), fraction = pos - index
Interpolated(samples, i, ratio) ==
    LET index == SourceIndex(i, ratio)
        fraction == (i * ratio.num) % ratio.den
    IN  IF index + 1 < Len(samples)
        THEN [num |-> At(samples, index) * (ratio.den - fraction)
                          + At(samples, index + 1) * fraction,
              den |-> ratio.den]
        ELSE [num |-> At(samples, index) * ratio.den, den |-> ratio.den]

\* resampleAudio (WebRTC server), a Float32Array in and out: the result as
\* fractions of the unit of `samples`.
resampleFloat32(samples, fromRate, toRate) ==
    [j \in 1..ResampledLength(Len(samples), fromRate, toRate) |->
        Interpolated(samples, j - 1, Ratio(fromRate, toRate))]

\* Math.max(-1, Math.min(1, sample)) of the sample num / den.
Clamped(num, den) ==
    IF num > den THEN den ELSE IF num < -den THEN -den ELSE num

\* Math.round(sample * 32767): the nearest integer, a half going up.
Pcm16Round(num, den) == (2 * Clamped(num, den) * MaxInt16 + den) \div (2 * den)

\* The encoder with half the scale.
Pcm16Floor_HalfScale(num, den) == (Clamped(num, den) * (MaxInt16 \div 2)) \div den

\* Math.floor(sample * ((1 << 15) - 1))
Pcm16Floor(num, den) == (Clamped(num, den) * MaxInt16) \div den

\* resampleAudio (WebSocket server), a Buffer of PCM16 in and out: decoded,
\* interpolated, clamped and encoded.
resampleBuffer(input, fromRate, toRate) ==
    [j \in 1..(resampleAudio(2 * Len(input), fromRate, toRate) \div 2) |->
        LET output == Interpolated(input, j - 1, Ratio(fromRate, toRate))
        IN  Pcm16Round(output.num, output.den * Pcm16Scale)]

\* decode (int16 / 32768) and encode again as convertAudioFormat does
decodeEncodeFloor(v) == Pcm16Floor(v, Pcm16Scale)

\* decode and encode again as the Buffer resampler does
decodeEncodeRound(v) == Pcm16Round(v, Pcm16Scale)

\* The sample values drawn for resampler inputs: the extremes of int16, the
\* values around half scale, and small ones.
SampleValues == {MinInt16, -16385, -1, 0, 1, 16384, MaxInt16}

RECURSIVE SeqsUpTo(_, _)
SeqsUpTo(S, n) ==
    IF n = 0 THEN {<<>>}
    ELSE LET shorter == SeqsUpTo(S, n - 1)
         IN  shorter \cup {Append(q, v) : q \in {r \in shorter : Len(r) = n - 1}, v \in S}

Silence(n) == [k \in 1..n |-> 0]

\* The calls that are made: both resamplers on silence of every length up
\* to MaxSamples between every two rates, and on drawn samples where the
\* output rate does not exceed the input rate (so that every product of the
\* encoder is below 2^31); both round trips on every int16 value.
AudioCalls ==
    {[op |-> o, x |-> Silence(n), fromRate |-> f, toRate |-> t, y |-> <<>>, done |-> FALSE] :
        o \in {"float32", "buffer"}, n \in 0..MaxSamples, f \in Rates, t \in Rates}
    \cup
    {c \in {[op |-> o, x |-> q, fromRate |-> f, toRate |-> t, y |-> <<>>, done |-> FALSE] :
                o \in {"float32", "buffer"}, q \in SeqsUpTo(SampleValues, MaxDrawn),
                f \in Rates, t \in Rates} : c.toRate <= c.fromRate}
    \cup
    {[op |-> o, x |-> <<v>>, fromRate |-> 0, toRate |-> 0, y |-> <<>>, done |-> FALSE] :
        o \in {"floor", "round"}, v \in Int16}

Returns(y) ==
    /\ ~dsp.done
    /\ dsp' = [dsp EXCEPT !.y = y, !.done = TRUE]
    /\ UNCHANGED <<server, budget, keepAlive, chunked, unhandled, readyState, out, stopDuring,
                   lastEvent, events, rtcVars, wsVars>>

ResampleFloat32 ==
    /\ dsp.op = "float32"
    /\ Returns(resampleFloat32(dsp.x, dsp.fromRate, dsp.toRate))

ResampleBuffer ==
    /\ dsp.op = "buffer"
    /\ Returns(resampleBuffer(dsp.x, dsp.fromRate, dsp.toRate))

RoundTripFloor ==
    /\ dsp.op = "floor"
    /\ Returns(<<decodeEncodeFloor(dsp.x[1])>>)

RoundTripRound ==
    /\ dsp.op = "round"
    /\ Returns(<<decodeEncodeRound(dsp.x[1])>>)

InitAudio ==
    /\ server = "audio"
    /\ readyState = [w \in Sockets |-> "CLOSED"]
    /\ rtc = [i \in Ids |-> FreeSession]
    /\ streamingSessions = [s \in Sids |-> NoSession]
    /\ oai = [i \in Ids |-> FreeWsSession]
    /\ sessions = [s \in Sids |-> NoSession]
    /\ out = [s \in Sids |-> <<>>]
    /\ stopDuring = {}
    /\ chunked = FreeChunked
    /\ unhandled = FALSE
    /\ lastEvent = Internal
    /\ events = 0
    /\ budget = 0
    /\ dsp \in AudioCalls
    /\ keepAlive = NoKeepAlive

NextAudio ==
    \/ ResampleFloat32
    \/ ResampleBuffer
    \/ RoundTripFloor
    \/ RoundTripRound

SpecAudio == InitAudio /\ [][NextAudio]_vars

\* ------------------------------------------------ WebRTC server, keep-alive
\* wss.clients: the connections not yet closed.
Clients == {w \in Sockets : readyState[w] # "CLOSED"}

\* extWs.on('pong') with the assignment left out.
Pong_Ignored(w) ==
    /\ server = "webrtc"
    /\ readyState[w] = "OPEN"
    /\ Handled("pong", 0, w)
    /\ keepAlive' = [keepAlive EXCEPT !.ponged[w] = TRUE, !.missed[w] = 0]
    /\ UNCHANGED <<server, budget, dsp, chunked, unhandled, readyState, rtcVars, wsVars, out, stopDuring>>

\* extWs.on('pong')
Pong(w) ==
    /\ server = "webrtc"
    /\ readyState[w] = "OPEN"
    /\ Handled("pong", 0, w)
    /\ keepAlive' = [keepAlive EXCEPT !.isAlive[w] = TRUE,
                                      !.ponged[w] = TRUE, !.missed[w] = 0]
    /\ UNCHANGED <<server, budget, dsp, chunked, unhandled, readyState, rtcVars, wsVars, out, stopDuring>>

\* The keep-alive timer fires: every client whose isAlive is false is
\* terminated, every other one has it cleared and is pinged.
Sweep ==
    /\ server = "webrtc"
    /\ keepAlive.sweeps < MaxSweeps
    /\ LET dead == {w \in Clients : ~keepAlive.isAlive[w]}
           pinged == Clients \ dead
       IN /\ readyState' = [w \in Sockets |->
                               IF w \in dead /\ readyState[w] = "OPEN"
                               THEN "CLOSING" ELSE readyState[w]]
          /\ keepAlive' =
                [isAlive |-> [w \in Sockets |->
                                 IF w \in pinged THEN FALSE ELSE keepAlive.isAlive[w]],
                 sweeps |-> keepAlive.sweeps + 1,
                 ponged |-> [w \in Sockets |->
                                IF w \in pinged THEN FALSE ELSE keepAlive.ponged[w]],
                 missed |-> [w \in Sockets |->
                                IF w \in Clients THEN keepAlive.missed[w] + 1
                                ELSE keepAlive.missed[w]]]
    /\ lastEvent' = Event("sweep", 0, 0)
    /\ events' = events
    /\ UNCHANGED <<server, budget, dsp, chunked, unhandled, rtcVars, wsVars, out, stopDuring>>

\* Two connections accepted (isAlive set), no session.
InitAlive ==
    /\ server = "webrtc"
    /\ readyState = [w \in Sockets |-> "OPEN"]
    /\ rtc = [i \in Ids |-> FreeSession]
    /\ streamingSessions = [s \in Sids |-> NoSession]
    /\ oai = [i \in Ids |-> FreeWsSession]
    /\ sessions = [s \in Sids |-> NoSession]
    /\ out = [s \in Sids |-> <<>>]
    /\ stopDuring = {}
    /\ chunked = FreeChunked
    /\ unhandled = FALSE
    /\ lastEvent = Internal
    /\ events = 0
    /\ budget = MaxAliveEvents
    /\ dsp = NoCall
    /\ keepAlive = NoKeepAlive

NextAlive ==
    \/ Sweep
    \/ \E w \in Sockets : Pong(w)
    \/ \E w \in Sockets : SocketClosing(w)
    \/ \E w \in Sockets : SocketClose(w)

SpecAlive == InitAlive /\ [][NextAlive]_vars

\* ------------------------------------------------------------ properties
\* The media messages of session `id` among the messages sent for its streamSid.
NumMedia(o, sid, id) ==
    Cardinality({k \in 1..Len(o[sid]) : o[sid][k].kind = "media" /\ o[sid][k].from = id})

NumMarks(o, sid, name) ==
    Cardinality({k \in 1..Len(o[sid]) : o[sid][k].kind = name})

\* The step handles a new event of the environment of this type.
Handles(type) == lastEvent'.type = type /\ events' = events + 1

\* C1: a stop that arrives while the start for its call id is still
\* negotiating is not lost: once that negotiation has settled, the session it
\* produced is torn down (transport closed) and not in the registry.
C1_DeferredStopApplied ==
    server = "webrtc" =>
        \A i \in stopDuring :
            \/ Negotiating(i)
            \/ rtc[i].stage = "failed"
            \/ ~Registered(i) /\ rtc[i].peerConnection # "open"

\* C2: a start for a call id that already has a Session does not mutate the
\* registry: the id keeps mapping to the same Session until that one is removed.
C2_ExistingSessionKept ==
    [][\A s \in Sids :
          /\ streamingSessions[s] # NoSession
                => streamingSessions'[s] \in {NoSession, streamingSessions[s]}
          /\ sessions[s] # NoSession
                => sessions'[s] \in {NoSession, sessions[s]}]_vars

\* C3: with two starts for one streamSid in flight, at every moment at most
\* one AI transport exists for that call id (a failed attempt not counted).
C3_OneTransportPerCall ==
    server = "webrtc" =>
        \A s \in Sids :
            Cardinality({i \in Ids : /\ rtc[i].streamSid = s
                                     /\ rtc[i].stage \in {"sdp", "settling", "done"}
                                     /\ rtc[i].peerConnection = "open"}) <= 1

\* The 'close' handling of telephony socket w, WebRTC server: every session
\* it owns is removed with its peer connection closed, the others are untouched.
RtcCloseTearsDown(w) ==
    \A s \in Sids :
        LET i == streamingSessions[s]
        IN i # NoSession =>
              IF rtc[i].twilioWs = w
              THEN streamingSessions'[s] = NoSession /\ rtc'[i].peerConnection = "closed"
              ELSE streamingSessions'[s] = i /\ rtc'[i] = rtc[i]

\* The same for the WebSocket server and the socket to the AI endpoint.
WsCloseTearsDown(w) ==
    \A s \in Sids :
        LET i == sessions[s]
        IN i # NoSession =>
              IF oai[i].twilioWs = w
              THEN sessions'[s] = NoSession /\ oai'[i].openaiWs \in {"CLOSING", "CLOSED"}
              ELSE sessions'[s] = i /\ oai'[i] = oai[i]

\* C4: when a telephony socket closes, every Session it owns is torn down
\* (AI transport closed) and removed in that one close handling; the Sessions
\* of other sockets stay registered and unchanged.
C4_CloseTearsDownOwned ==
    [][\A w \in Sockets :
          readyState[w] = "CLOSING" /\ readyState'[w] = "CLOSED"
             => RtcCloseTearsDown(w) /\ WsCloseTearsDown(w)]_vars

\* C4, the WebRTC server alone.
C4_RtcCloseTearsDownOwned ==
    [][\A w \in Sockets :
          readyState[w] = "CLOSING" /\ readyState'[w] = "CLOSED" => RtcCloseTearsDown(w)]_vars

\* C5: once a telephony socket has closed and every negotiation started from
\* it has settled, no Session owned by it is registered and no transport
\* negotiated for it is open.
C5_NothingLeftAfterClose ==
    server = "webrtc" =>
        \A w \in Sockets :
            (readyState[w] = "CLOSED"
               /\ \A i \in Ids : rtc[i].twilioWs = w => ~Negotiating(i))
            => \A i \in Ids :
                  rtc[i].twilioWs = w /\ rtc[i].stage = "done"
                     => ~Registered(i) /\ rtc[i].peerConnection # "open"

\* C6: a stop for a call id with a registered Session closes its AI
\* transport, removes the id and sends exactly one 'disconnected' mark.
C6_StopTearsDown ==
    [][Handles("stop") =>
          LET s == lastEvent'.sid
              w == lastEvent'.ws
          IN /\ streamingSessions[s] # NoSession =>
                   /\ rtc'[streamingSessions[s]].peerConnection = "closed"
                   /\ streamingSessions'[s] = NoSession
                   /\ out'[s] = Append(out[s], Mark("disconnected", w, streamingSessions[s]))
             /\ sessions[s] # NoSession =>
                   /\ oai'[sessions[s]].openaiWs \in {"CLOSING", "CLOSED"}
                   /\ sessions'[s] = NoSession
                   /\ out'[s] = Append(out[s], Mark("disconnected", w, sessions[s]))]_vars

\* C6, the WebRTC server alone.
C6_RtcStopTearsDown ==
    [][Handles("stop") =>
          LET s == lastEvent'.sid
              w == lastEvent'.ws
          IN streamingSessions[s] # NoSession =>
                /\ rtc'[streamingSessions[s]].peerConnection = "closed"
                /\ streamingSessions'[s] = NoSession
                /\ out'[s] = Append(out[s], Mark("disconnected", w, streamingSessions[s]))]_vars

\* C7: a 'connected' mark is sent only for a Session whose AI leg has been
\* established: never while the transport of that start is not yet open.
C7_ConnectedOnlyWhenOpen ==
    \A s \in Sids : \A k \in 1..Len(out[s]) :
        out[s][k].kind = "connected" =>
            /\ server = "webrtc" => rtc[out[s][k].from].stage = "done"
            /\ server = "websocket" => oai[out[s][k].from].openaiWs # "CONNECTING"

\* C7, the WebRTC server alone: the mark is sent at most once per start and
\* only by a start whose negotiation succeeded.
C7_RtcConnectedOnSuccess ==
    server = "webrtc" =>
        \A s \in Sids : \A k \in 1..Len(out[s]) :
            out[s][k].kind = "connected" =>
                /\ rtc[out[s][k].from].stage = "done"
                /\ \A j \in 1..Len(out[s]) :
                      out[s][j].kind = "connected" /\ out[s][j].from = out[s][k].from => j = k

\* C8: a start whose credential or offer/answer exchange failed leaves no
\* Session registered, sends no 'connected' mark, and the peer connection
\* created for the attempt is closed.
C8_FailedStartReleased ==
    \A i \in Ids :
        rtc[i].stage = "failed" =>
            /\ ~Registered(i)
            /\ \A k \in 1..Len(out[rtc[i].streamSid]) :
                  ~(out[rtc[i].streamSid][k].kind = "connected"
                      /\ out[rtc[i].streamSid][k].from = i)
            /\ rtc[i].peerConnection # "open"

\* A session of the WebRTC server is Active: registered, negotiated, open.
RtcActive(i, s) ==
    /\ streamingSessions[s] = i
    /\ rtc[i].stage = "done"
    /\ rtc[i].peerConnection = "open"

\* A session of the WebSocket server is Active: registered with an open AI socket.
WsActive(i, s) ==
    /\ sessions[s] = i
    /\ oai[i].openaiWs = "OPEN"

\* C9: an inbound media event changes a Session (buffers or forwards the
\* frame) only if that Session is the Active one of the event's call id;
\* otherwise it is dropped, and in every case the registry, the telephony
\* sockets and the messages sent stay as they were.
C9_MediaOnlyWhenActive ==
    [][Handles("media") =>
          /\ \A i \in Ids : rtc'[i] # rtc[i] => RtcActive(i, lastEvent'.sid)
          /\ \A i \in Ids : oai'[i] # oai[i] => WsActive(i, lastEvent'.sid)
          /\ UNCHANGED <<streamingSessions, sessions, out, readyState>>]_vars

\* C9 witness: a media event has just been dropped for a call id whose start
\* is still negotiating.
C9_DroppedWhileNegotiating ==
    /\ lastEvent.type = "media"
    /\ streamingSessions[lastEvent.sid] = NoSession
    /\ \E i \in Ids : /\ rtc[i].streamSid = lastEvent.sid
                      /\ Negotiating(i)
                      /\ rtc[i].bufferQueue = <<>>
                      /\ rtc[i].forwarded = <<>>

\* C10 as stated: while a Session is Active its counter equals the number of
\* media messages it has sent.
C10_CounterEqualsSent ==
    /\ \A i \in Ids : \A s \in Sids :
          RtcActive(i, s) => rtc[i].mediaChunkCounter = NumMedia(out, s, i)
    /\ \A i \in Ids : \A s \in Sids :
          WsActive(i, s) => oai[i].mediaChunkCounter = NumMedia(out, s, i)

\* The counter and the media messages of one session over one step:
\* `handled` says whether the step is that session handling an AI audio frame.
CounterStep(before, after, sid, id, w, handled) ==
    /\ after = before + (IF handled THEN 1 ELSE 0)
    /\ NumMedia(out', sid, id) - NumMedia(out, sid, id)
          = (IF handled /\ readyState[w] = "OPEN" THEN 1 ELSE 0)

\* C10 amended: the counter starts at 0 and goes up by exactly 1 for every
\* AI audio frame the Session handles and in no other step; the frame is sent
\* iff the telephony socket is OPEN, with the counter's old value as chunk.
C10_CounterPerFrame ==
    [][/\ \A i \in Ids :
             IF rtc[i].stage = "free"
             THEN rtc'[i].mediaChunkCounter = 0
             ELSE CounterStep(rtc[i].mediaChunkCounter, rtc'[i].mediaChunkCounter,
                              rtc[i].streamSid, i, rtc[i].twilioWs,
                              Handles("frame") /\ rtc'[i] # rtc[i])
       /\ \A i \in Ids :
             IF oai[i].stage = "free"
             THEN oai'[i].mediaChunkCounter = 0
             ELSE CounterStep(oai[i].mediaChunkCounter, oai'[i].mediaChunkCounter,
                              oai[i].streamSid, i, oai[i].twilioWs,
                              Handles("frame") /\ oai'[i] # oai[i])
       /\ Handles("frame") => (rtc' # rtc \/ oai' # oai)]_vars

\* C10 witness: a Session has handled two frames and sent both.
C10_TwoFramesSent ==
    /\ lastEvent.type = "frame"
    /\ \E i \in Ids : /\ rtc[i].mediaChunkCounter = 2
                      /\ NumMedia(out, rtc[i].streamSid, i) = 2
                      /\ out[rtc[i].streamSid][Len(out[rtc[i].streamSid])].chunk = 1

\* The media messages sent for streamSid s on socket w before position k and
\* after the last 'disconnected' mark sent there before k: those of the
\* call that message k belongs to.
EarlierInCall(s, w, k) ==
    {j \in 1..(k - 1) :
        /\ out[s][j].kind = "media"
        /\ out[s][j].ws = w
        /\ \A m \in (j + 1)..(k - 1) :
              ~(out[s][m].kind = "disconnected" /\ out[s][m].ws = w)}

\* C11: for every streamSid, the chunk fields of the media messages sent on
\* the telephony socket between a start and the matching stop are 0, 1, 2, ...
\* in send order: each message's chunk is the number of media messages of
\* the call sent before it.
C11_ChunksCountUp ==
    \A s \in Sids : \A k \in 1..Len(out[s]) :
        out[s][k].kind = "media" =>
            out[s][k].chunk = Cardinality(EarlierInCall(s, out[s][k].ws, k))

\* All media messages sent for a streamSid.
MediaSent(o, sid) == Cardinality({k \in 1..Len(o[sid]) : o[sid][k].kind = "media"})

\* C12: an outbound media frame is sent iff the telephony socket is OPEN when
\* the frame is handled: then exactly one media message is appended on that
\* socket; otherwise nothing is sent, no error is raised, and no later step
\* delivers it (media messages appear in no step but a frame step).
C12_SentIffOpen ==
    [][\A s \in Sids :
          IF Handles("frame") /\ lastEvent'.sid = s
          THEN /\ unhandled' = unhandled
               /\ IF readyState[lastEvent'.ws] = "OPEN"
                  THEN /\ Len(out'[s]) = Len(out[s]) + 1
                       /\ SubSeq(out'[s], 1, Len(out[s])) = out[s]
                       /\ out'[s][Len(out'[s])].kind = "media"
                       /\ out'[s][Len(out'[s])].ws = lastEvent'.ws
                  ELSE out'[s] = out[s]
          ELSE MediaSent(out', s) = MediaSent(out, s)]_vars

\* C12 witness: a frame has just been handled with the telephony socket no
\* longer open, and nothing was sent for it.
C12_FrameDropped ==
    /\ lastEvent.type = "frame"
    /\ readyState[lastEvent.ws] # "OPEN"
    /\ MediaSent(out, lastEvent.sid) = 0
    /\ \E i \in Ids : rtc[i].mediaChunkCounter = 1 \/ oai[i].mediaChunkCounter = 1

\* C13: every media message sent on a telephony socket carries a payload of
\* exactly one frame (160 bytes), whatever the length of the frame or delta
\* received from the AI leg.
C13_ExactFramePayload ==
    \A s \in Sids : \A k \in 1..Len(out[s]) :
        out[s][k].kind = "media" => out[s][k].bytes = FrameBytes

\* The bytes the running calls have not yet gone through.
RECURSIVE HeldBytes(_)
HeldBytes(calls) ==
    IF calls = <<>> THEN 0
    ELSE (Head(calls).length - Head(calls).offset) + HeldBytes(Tail(calls))

\* C14: in the outbound chunker no byte is dropped: with the telephony
\* socket open, the bytes emitted in 160-byte frames plus the bytes still
\* held for later frames equal the bytes received.
C14_NoByteDropped ==
    (server = "chunking" /\ readyState[chunked.twilioWs] = "OPEN") =>
        FrameBytes * MediaSent(out, chunked.streamSid) + HeldBytes(chunked.calls)
            = chunked.pcmBytes

\* C15: the inbound buffer is bounded: a Session's buffer queue never holds
\* more than maxQueueSize frames, whatever the arrival pattern and however
\* slow the consumer.
C15_QueueBounded ==
    \A i \in Ids : Len(rtc[i].bufferQueue) <= maxQueueSize

\* C15 witness: a media event has just been handled that found the queue
\* full, and the queue is full again.
C15_QueueFullAfterOverflow ==
    /\ lastEvent.type = "media"
    /\ \E i \in Ids : /\ Len(rtc[i].bufferQueue) = maxQueueSize
                      /\ Head(rtc[i].bufferQueue) + maxQueueSize - 1 = events
                      /\ Len(rtc[i].forwarded) + maxQueueSize < events - 1

\* C16: when a push makes the queue exceed its bound, exactly the oldest
\* entry is evicted: the queue afterwards holds the newest maxQueueSize
\* frames in arrival order, the frame just received last; nothing is sent
\* to the sender and no error is raised.  (Payloads are arrival numbers.)
C16_EvictsOldest ==
    [][\A i \in Ids :
          (Handles("media") /\ streamingSessions[lastEvent'.sid] = i
             /\ Len(rtc[i].bufferQueue) = maxQueueSize)
          => /\ rtc'[i].bufferQueue = Append(Tail(rtc[i].bufferQueue), events')
             /\ rtc'[i].bufferQueue = [k \in 1..maxQueueSize |-> events' - maxQueueSize + k]
             /\ out' = out
             /\ unhandled' = unhandled]_vars

\* C16 witness: the oldest queued frame has just been evicted (no frame was
\* rejected, so a frame before the head that was not forwarded was evicted).
C16_OldestEvicted ==
    /\ lastEvent.type = "media"
    /\ ~unhandled
    /\ \E i \in Ids : /\ Len(rtc[i].bufferQueue) = maxQueueSize
                      /\ rtc[i].bufferQueue[maxQueueSize] = events
                      /\ Head(rtc[i].bufferQueue) - 1 > Len(rtc[i].forwarded)

\* C17: the inbound frames of one Session reach the AI transport in the
\* order of their media events, each at most once, and at most one
\* processAudioQueue loop runs for a Session at a time.  (Payloads are
\* arrival numbers, so the forwarded ones must be strictly increasing.)
C17_InOrderOneLoop ==
    \A i \in Ids :
        /\ rtc[i].loops <= 1
        /\ \A j, k \in 1..Len(rtc[i].forwarded) :
              j < k => rtc[i].forwarded[j] < rtc[i].forwarded[k]

\* C17 witness: frames were forwarded on either side of an eviction, by a
\* loop that is still running.
C17_ForwardedAcrossEviction ==
    /\ ~unhandled
    /\ \E i \in Ids :
          /\ rtc[i].loops = 1
          /\ Len(rtc[i].forwarded) >= 2
          /\ rtc[i].forwarded[Len(rtc[i].forwarded)]
                > rtc[i].forwarded[Len(rtc[i].forwarded) - 1] + 1

\* A step tears down session i of the WebRTC server / the WebSocket server:
\* its registry entry goes away.
RtcTornDown(i) ==
    \E s \in Sids : streamingSessions[s] = i /\ streamingSessions'[s] = NoSession

WsTornDown(i) ==
    \E s \in Sids : sessions[s] = i /\ sessions'[s] = NoSession

\* No step but the ones of the telephony socket itself (its going down, its
\* 'close' event) changes a telephony socket's readyState.
TelephonyUntouched ==
    \A w \in Sockets :
        readyState'[w] # readyState[w]
            => lastEvent'.ws = w /\ lastEvent'.type \in {"closing", "close"}

\* C18: a teardown (on stop, on AI-leg closure, on owning-socket close)
\* closes the Session's AI transport and leaves the readyState of every
\* telephony socket as it is.
C18_TeardownClosesAiOnly ==
    [][/\ \A i \in Ids : RtcTornDown(i) => rtc'[i].peerConnection = "closed"
       /\ \A i \in Ids : WsTornDown(i) => oai'[i].openaiWs \in {"CLOSING", "CLOSED"}
       /\ TelephonyUntouched]_vars

\* C18, the part about the telephony socket alone: no teardown closes it.
C18_TelephonySocketKept ==
    [][TelephonyUntouched]_vars

C20_FailureContained == unhandled = FALSE

\* C21: the events of one call id are handled one at a time: the handling
\* of an event for a call id never begins while a start for the same call id
\* is still awaiting its negotiation.
C21_OneEventAtATime ==
    [][(events' = events + 1 /\ lastEvent'.sid \in Sids) =>
          \A i \in Ids :
             /\ rtc[i].streamSid = lastEvent'.sid => ~Negotiating(i)
             /\ oai[i].streamSid = lastEvent'.sid => oai[i].stage # "token"]_vars

\* C22: Closed is terminal: after the 'disconnected' mark of a Session no
\* media message of that Session is sent on the telephony socket.
C22_NoMediaAfterDisconnected ==
    \A s \in Sids : \A k, j \in 1..Len(out[s]) :
        (k < j /\ out[s][k].kind = "disconnected" /\ out[s][j].kind = "media")
            => out[s][j].from # out[s][k].from

\* The step changes something of call id s: its registry entry, or a session
\* object created for it.
Touched(s) ==
    \/ streamingSessions'[s] # streamingSessions[s]
    \/ sessions'[s] # sessions[s]
    \/ \E i \in Ids : rtc'[i] # rtc[i] /\ (rtc[i].streamSid = s \/ rtc'[i].streamSid = s)
    \/ \E i \in Ids : oai'[i] # oai[i] /\ (oai[i].streamSid = s \/ oai'[i].streamSid = s)

\* C23: an event for call id A (start, media, stop, AI-transport callback)
\* changes nothing of any other call id: registry entry, queue, counter and
\* transport of the Sessions of other ids stay as they are.  A continuation
\* of a handler changes things of one call id only.
C23_OwnCallOnly ==
    [][lastEvent'.type # "close" =>
          \A s \in Sids :
             Touched(s) =>
                \/ lastEvent'.sid = s
                \/ lastEvent'.sid \notin Sids /\ \A t \in Sids \ {s} : ~Touched(t)]_vars

\* C23 witness: a stop for one call id has just torn its Session down while
\* the same connection's Session for another call id stays registered, open.
C23_StopLeavesOtherCall ==
    /\ lastEvent.type = "stop"
    /\ \E i, j \in Ids :
          /\ rtc[i].streamSid = lastEvent.sid
          /\ rtc[i].peerConnection = "closed"
          /\ rtc[j].twilioWs = lastEvent.ws
          /\ rtc[j].streamSid # lastEvent.sid
          /\ Registered(j)
          /\ rtc[j].peerConnection = "open"

\* C24: a stop for a call id that has no registered Session is a no-op: the
\* registries, every Session, the sockets and the messages sent stay as they
\* are (no transport closed, no mark sent).
C24_StopOfUnknownIsNoOp ==
    [][(Handles("stop") /\ streamingSessions[lastEvent'.sid] = NoSession
                        /\ sessions[lastEvent'.sid] = NoSession)
          => UNCHANGED <<rtc, streamingSessions, oai, sessions, out, readyState,
                         unhandled, chunked>>]_vars

\* C24 witness: a stop for an unregistered call id has just been handled on
\* a connection that owns a registered Session of another call id.
C24_UnknownStopHandled ==
    /\ lastEvent.type = "stop"
    /\ Len(out[lastEvent.sid]) = 0
    /\ \A i \in Ids : rtc[i].streamSid # lastEvent.sid /\ oai[i].streamSid # lastEvent.sid
    /\ \E j \in Ids : Registered(j) /\ rtc[j].twilioWs = lastEvent.ws
                                    /\ rtc[j].peerConnection = "open"

\* C25: for an input of N samples and any two of the rates in use, both
\* resamplers return floor(N * R_out / R_in) samples, give or take one: when
\* upsampling, when downsampling, at equal rates, and for N = 0.
C25_ResampledLength ==
    (dsp.done /\ dsp.op \in {"float32", "buffer"}) =>
        LET expected == (Len(dsp.x) * dsp.toRate) \div dsp.fromRate
        IN  /\ Len(dsp.y) >= expected - 1
            /\ Len(dsp.y) <= expected + 1

\* The Buffer resampler has taken 7 samples from 48000 Hz down to 8000 Hz and
\* returned one.
C25_DownsampledWithRemainder ==
    /\ dsp.done
    /\ dsp.op = "buffer"
    /\ dsp.fromRate = WEBRTC_AUDIO_CONFIG.sampleRate
    /\ dsp.toRate = TWILIO_AUDIO_CONFIG.sampleRate
    /\ Len(dsp.x) = 7
    /\ Len(dsp.y) = 1

\* C26: at equal source and target rate a resampler returns its input: the
\* same length and the same samples, the extreme PCM16 values included.
C26_SameRateIdentity ==
    (dsp.done /\ dsp.op \in {"float32", "buffer"} /\ dsp.fromRate = dsp.toRate) =>
        /\ Len(dsp.y) = Len(dsp.x)
        /\ \A j \in 1..Len(dsp.y) :
              IF dsp.op = "float32"
              THEN dsp.y[j].num = dsp.x[j] * dsp.y[j].den
              ELSE dsp.y[j] = dsp.x[j]

\* C27: an int16 sample decoded (int16 / 32768) and encoded again (clamped,
\* scaled by 32767, made whole) is at most one unit away from the original
\* and within the int16 range, whatever the int16 value.
C27_RoundTripWithinOne ==
    (dsp.done /\ dsp.op \in {"floor", "round"}) =>
        /\ dsp.y[1] \in Int16
        /\ dsp.y[1] - dsp.x[1] <= 1
        /\ dsp.x[1] - dsp.y[1] <= 1

\* The lowest int16 value has made the round trip through the encoder of
\* convertAudioFormat and come back one unit higher.
C27_LowestValueRoundTripped ==
    /\ dsp.done
    /\ dsp.op = "floor"
    /\ dsp.x = <<MinInt16>>
    /\ dsp.y = <<MinInt16 + 1>>

\* C28: outbound chunks go out in the order of the audio they were cut
\* from: every chunk of an earlier buffer is sent before any chunk of a later
\* one, also when the later buffer arrives while the earlier one is still
\* being paced out.
C28_ChunksInArrivalOrder ==
    \A k, j \in 1..Len(chunked.sentOf) :
        k < j => chunked.sentOf[k] <= chunked.sentOf[j]

\* C29: no audio is forwarded before a start has completed: every outbound
\* media message of a session comes after the 'connected' mark of its start,
\* so audio the sink delivers while the start is still negotiating is not sent.
C29_NoMediaBeforeConnected ==
    \A s \in Sids : \A j \in 1..Len(out[s]) :
        out[s][j].kind = "media" =>
            \E k \in 1..(j - 1) :
                /\ out[s][k].kind = "connected"
                /\ out[s][k].from = out[s][j].from

\* C30: a registry entry is removed only by the teardown of the session it
\* maps to: a stop for its streamSid, the close of its telephony connection,
\* or the close of its own socket to the AI endpoint.  The late 'close' of the
\* AI socket of an earlier, stopped session of the same streamSid leaves the
\* entry of the new session in place.
C30_RemovedByOwnTeardownOnly ==
    [][\A s \in Sids :
          (sessions[s] # NoSession /\ sessions'[s] = NoSession) =>
              \/ Handles("stop") /\ lastEvent'.sid = s
              \/ lastEvent'.type = "close" /\ lastEvent'.ws = oai[sessions[s]].twilioWs
              \/ /\ oai[sessions[s]].openaiWs = "CLOSING"
                 /\ oai'[sessions[s]].openaiWs = "CLOSED"]_vars

\* C31: once a session has been torn down, by a stop or by the close of its
\* telephony connection, no frame is handed to its closed transport any more:
\* the frames still queued are discarded and the consumer loop forwards
\* nothing at its next wake-up.
C31_NothingForwardedAfterTeardown ==
    [][\A i \in Ids :
          rtc[i].peerConnection = "closed" => rtc'[i].forwarded = rtc[i].forwarded]_vars

\* C32: a session never has more than one processAudioQueue loop running,
\* whatever the interleaving of media events, the waits of the loop, the
\* truncation of the queue, and a stop that resets isProcessing while a loop
\* is still waiting.
C32_OneLoopPerSession ==
    \A i \in Ids : rtc[i].loops <= 1

\* A stop has reset isProcessing and closed the transport while the loop of
\* that session is still in its wait.
C32_StoppedWhileLoopWaits ==
    \E i \in Ids :
        /\ rtc[i].loops = 1
        /\ ~rtc[i].isProcessing
        /\ rtc[i].peerConnection = "closed"
        /\ Len(rtc[i].forwarded) > 0

\* C33: frames never stay queued with no consumer: whenever the inbound
\* queue of a registered session is not empty, a processAudioQueue loop is
\* running for it, so every queued frame is forwarded, evicted or discarded
\* even if no further media event arrives.
C33_QueuedFramesHaveConsumer ==
    \A i \in Ids :
        (Registered(i) /\ Len(rtc[i].bufferQueue) > 0) => rtc[i].loops >= 1

\* C34: a session is controlled only through the telephony connection that
\* owns it: a stop or media event with its streamSid on another connection
\* neither tears it down nor feeds it, and a start for its streamSid on
\* another connection does not take over its registry entry.
C34_OwnerControlsSession ==
    [][\A s \in Sids :
          streamingSessions[s] # NoSession =>
             /\ (/\ events' = events + 1
                 /\ lastEvent'.type \in {"media", "stop"}
                 /\ lastEvent'.sid = s
                 /\ lastEvent'.ws # rtc[streamingSessions[s]].twilioWs)
                   => /\ rtc'[streamingSessions[s]] = rtc[streamingSessions[s]]
                      /\ streamingSessions'[s] = streamingSessions[s]
             /\ streamingSessions'[s] \notin {NoSession, streamingSessions[s]}
                   => rtc'[streamingSessions'[s]].twilioWs
                         = rtc[streamingSessions[s]].twilioWs]_vars

\* C35: the chunking server sends outbound media only while isStreamingAudio
\* is set: once audio_stopped has been handled nothing is sent until the next
\* audio_started, the remaining chunks of a buffer whose paced sending had
\* begun included.
C35_MediaOnlyWhileStreaming ==
    [][~chunked.isStreamingAudio => chunked'.sentOf = chunked.sentOf]_vars

\* C36: the keep-alive sweep terminates a connection only if it has received
\* no pong since the previous sweep pinged it, so a connection that answers
\* every ping in time is never terminated by keep-alive; and a connection
\* that stops answering is terminated no later than the second sweep after
\* its last pong.
C36_KeepAlive ==
    /\ [](\A w \in Sockets : readyState[w] = "OPEN" => keepAlive.missed[w] <= 1)
    /\ [][\A w \in Sockets :
             (lastEvent'.type = "sweep" /\ readyState[w] = "OPEN" /\ readyState'[w] # "OPEN")
                => ~keepAlive.ponged[w]]_vars

\* The second sweep has just terminated a connection that never answered and
\* pinged again the other one, which had answered the first ping.
C36_SilentTerminatedOtherKept ==
    \E w, v \in Sockets :
        /\ lastEvent.type = "sweep"
        /\ keepAlive.sweeps = 2
        /\ readyState[w] = "CLOSING"
        /\ keepAlive.missed[w] = 2
        /\ readyState[v] = "OPEN"
        /\ keepAlive.missed[v] = 1
        /\ ~keepAlive.isAlive[v]

\* C37: resampling never reads past the end of its input: for every output
\* index below the computed output length the source index
\* floor(i * R_in / R_out) is below the input length, for every input length,
\* 0 included, and every two of the rates in use.
C37_SourceIndexInRange ==
    (dsp.done /\ dsp.op \in {"float32", "buffer"}) =>
        \A j \in 1..Len(dsp.y) :
            SourceIndex(j - 1, Ratio(dsp.fromRate, dsp.toRate)) < Len(dsp.x)

\* The Buffer resampler has taken two samples from 8000 Hz up to 48000 Hz: the
\* last of its twelve output samples reads the last input sample.
C37_LastSampleRead ==
    /\ dsp.done
    /\ dsp.op = "buffer"
    /\ dsp.fromRate = TWILIO_AUDIO_CONFIG.sampleRate
    /\ dsp.toRate = WEBRTC_AUDIO_CONFIG.sampleRate
    /\ Len(dsp.x) = 2
    /\ Len(dsp.y) = 12
    /\ SourceIndex(Len(dsp.y) - 1, Ratio(dsp.fromRate, dsp.toRate)) = Len(dsp.x) - 1
====
